---------------------------- MODULE Spec2Model ----------------------------
(***************************************************************************)
(* RustAMX: raw instruction words (raw.rs, lib.rs), operand encoders       *)
(* (ops.rs, lib.rs mod ops), the AmxGuard lifecycle and the tiled          *)
(* sgemm::matmul kernel (lib.rs), with the coprocessor they drive.         *)
(*                                                                         *)
(* A u64 is the set of its set bit positions (0..63): `&` is \cap, `|` is  *)
(* \cup and `<<` moves positions up and drops those that leave the word.   *)
(* A usize is a natural number below 2^WordBits.                           *)
(***************************************************************************)
EXTENDS Integers, Sequences, FiniteSets, TLC

VARIABLES
    brand,      \* machdep.cpu.brand_string as the set of tokens it contains, or "sysctl_failed"
    build,      \* "debug" (overflow checks on) or "release" (wrapping arithmetic)
    cell,       \* AMX_AVAILABLE: <<>> while unset, <<v>> once initialised
    hw,         \* the coprocessor: [amx, x, y, z, fault]
    guards,     \* number of live AmxGuard values on the thread
    lifecycle,  \* every enable/disable word issued so far, in order, with its issuer
    trace,      \* the instructions issued by the most recent call, in order
    call,       \* the most recent call: its name, arguments and outcome
    enc,        \* the most recent encoder or wrapper evaluation
    threads     \* concurrent callers of detect()/is_available(): per thread, where it
                \* is inside the call, what its calls returned, how often it wrote the cell

vars == <<brand, build, cell, hw, guards, lifecycle, trace, call, enc, threads>>

-----------------------------------------------------------------------------
(* Bounds of the model *)

\* usize has WordBits bits (64 on the target; scaled so that n*n can wrap)
WordBits == 12
\* longest enable/disable history explored by the lifecycle specification
MaxLifecycle == 4
\* longest enable/disable history explored by the raw-layer specification
MaxRawLifecycle == 2

-----------------------------------------------------------------------------
(* u64 values as bit sets *)

Bits64 == 0..63

Min(x, y) == IF x <= y THEN x ELSE y

\* `v as u64` for a small natural number
U64(v) == {i \in 0..30 : (v \div (2^i)) % 2 = 1}

RECURSIVE NatOf(_)
\* the natural number a bit set (below 2^31) stands for
NatOf(s) == IF s = {} THEN 0
            ELSE LET i == CHOOSE j \in s : TRUE IN 2^i + NatOf(s \ {i})

\* (1 << k) - 1
LowMask(k) == 0..(k - 1)

BitAnd(x, m) == x \cap m
BitOr(x, y) == x \cup y
Shl(x, k) == {i + k : i \in {j \in x : j + k <= 63}}
\* `flag as u64`
BoolU64(flag) == IF flag THEN {0} ELSE {}
\* bits lo .. lo+width-1 of x, moved down to position 0
Field(x, lo, width) == {i - lo : i \in {j \in x : j >= lo /\ j < lo + width}}

-----------------------------------------------------------------------------
(* ops.rs: operand encoders *)

ADDR_MASK == LowMask(56)

encode_xy_unmasked(addr, reg, pair) ==
    BitOr(BitOr(Shl(BoolU64(pair), 62), Shl(reg, 56)), BitAnd(addr, ADDR_MASK))
\* the register index one bit too high
encode_xy_reg57(addr, reg, pair) ==
    BitOr(BitOr(BitAnd(addr, ADDR_MASK), Shl(BitAnd(reg, U64(7)), 57)), Shl(BoolU64(pair), 62))
encode_xy(addr, reg, pair) ==
    BitOr(BitOr(Shl(BoolU64(pair), 62), Shl(BitAnd(reg, LowMask(3)), 56)),
          BitAnd(addr, ADDR_MASK))

encode_z(addr, row, pair) ==
    BitOr(BitOr(Shl(BoolU64(pair), 62), Shl(BitAnd(row, LowMask(6)), 56)),
          BitAnd(addr, ADDR_MASK))

encode_fma(x_off, y_off, z_row, vector_mode) ==
    BitOr(BitOr(BitOr(Shl(BoolU64(vector_mode), 63),
                      Shl(BitAnd(z_row, LowMask(6)), 20)),
                Shl(BitAnd(x_off, LowMask(9)), 10)),
          BitAnd(y_off, LowMask(9)))

(* lib.rs mod ops: the same encoders, duplicated *)

LIB_ADDR_MASK == LowMask(56)

encode_xy_ldst(addr, reg, pair) ==
    BitOr(BitOr(Shl(BoolU64(pair), 62), Shl(BitAnd(reg, LowMask(3)), 56)),
          BitAnd(addr, LIB_ADDR_MASK))

encode_z_ldst_mask4(addr, row, pair) ==
    BitOr(BitOr(Shl(BoolU64(pair), 62), Shl(BitAnd(row, LowMask(4)), 56)),
          BitAnd(addr, LIB_ADDR_MASK))
encode_z_ldst(addr, row, pair) ==
    BitOr(BitOr(Shl(BoolU64(pair), 62), Shl(BitAnd(row, LowMask(6)), 56)),
          BitAnd(addr, LIB_ADDR_MASK))

lib_encode_fma(x_off, y_off, z_row, vector_mode) ==
    BitOr(BitOr(BitOr(Shl(BoolU64(vector_mode), 63),
                      Shl(BitAnd(z_row, LowMask(6)), 20)),
                Shl(BitAnd(x_off, LowMask(9)), 10)),
          BitAnd(y_off, LowMask(9)))

-----------------------------------------------------------------------------
(* raw.rs and lib.rs: instruction words *)

AMX_OP_BASE == 2101248        \* 0x00201000
LIB_AMX_OP_BASE == 2101248    \* 0x00201000

\* the opcode each define_amx_op! invocation of raw.rs passes
RawOpcode_fma16_14 ==
    [amx_ldx |-> 0, amx_ldy |-> 1, amx_ldz |-> 4, amx_ldzi |-> 6,
     amx_stx |-> 2, amx_sty |-> 3, amx_stz |-> 5, amx_stzi |-> 7,
     amx_extrx |-> 8, amx_extry |-> 9,
     amx_fma64 |-> 10, amx_fms64 |-> 11, amx_fma32 |-> 12, amx_fms32 |-> 13,
     amx_fma16 |-> 14, amx_fms16 |-> 16,
     amx_mac16 |-> 14, amx_vecint |-> 18, amx_matint |-> 20,
     amx_vecfp |-> 19, amx_matfp |-> 21, amx_genlut |-> 22]
RawOpcode ==
    [amx_ldx |-> 0, amx_ldy |-> 1, amx_ldz |-> 4, amx_ldzi |-> 6,
     amx_stx |-> 2, amx_sty |-> 3, amx_stz |-> 5, amx_stzi |-> 7,
     amx_extrx |-> 8, amx_extry |-> 9,
     amx_fma64 |-> 10, amx_fms64 |-> 11, amx_fma32 |-> 12, amx_fms32 |-> 13,
     amx_fma16 |-> 15, amx_fms16 |-> 16,
     amx_mac16 |-> 14, amx_vecint |-> 18, amx_matint |-> 20,
     amx_vecfp |-> 19, amx_matfp |-> 21, amx_genlut |-> 22]

\* the opcode each define_amx_op! invocation of lib.rs passes
LibOpcode ==
    [amx_ldx |-> 0, amx_ldy |-> 1, amx_stx |-> 2, amx_sty |-> 3,
     amx_ldz |-> 4, amx_stz |-> 5, amx_ldzi |-> 6, amx_stzi |-> 7,
     amx_extrx |-> 8, amx_extry |-> 9,
     amx_fma64 |-> 10, amx_fms64 |-> 11, amx_fma32 |-> 12, amx_fms32 |-> 13,
     amx_mac16 |-> 14, amx_fma16 |-> 15, amx_fms16 |-> 16,
     amx_vecint |-> 18, amx_vecfp |-> 19, amx_matint |-> 20,
     amx_matfp |-> 21, amx_genlut |-> 22]

RawNames == DOMAIN RawOpcode
LibNames == DOMAIN LibOpcode

\* const OP: u32 = AMX_OP_BASE + ($opcode << 5), raw.rs
define_amx_op(opcode) == AMX_OP_BASE + opcode * (2^5)
\* const OP: u32 = AMX_OP_BASE + ($opcode << 5), lib.rs
lib_define_amx_op(opcode) == LIB_AMX_OP_BASE + opcode * (2^5)

\* the word the wrapper `name` of a layer ("raw": raw.rs, "lib": lib.rs) emits
WrapperWord(layer, name) ==
    IF layer = "raw" THEN define_amx_op(RawOpcode[name])
    ELSE lib_define_amx_op(LibOpcode[name])

\* the assembler's nop; it is not an AMX word
NOP == [ins |-> "nop", word |-> 0, operand |-> {}]

\* the asm! block of amx_set, raw.rs: three nops, then the word
amx_set_two_nops == <<NOP, NOP,
                     [ins |-> "amx_set", word |-> AMX_OP_BASE + 17 * (2^5), operand |-> {}]>>
amx_set == <<NOP, NOP, NOP,
             [ins |-> "amx_set", word |-> AMX_OP_BASE + 17 * (2^5), operand |-> {}]>>
\* the asm! block of amx_clr, raw.rs
amx_clr == <<NOP, NOP, NOP,
             [ins |-> "amx_clr", word |-> AMX_OP_BASE + 17 * (2^5) + 1, operand |-> {}]>>
\* the asm! block of amx_set, lib.rs
lib_amx_set_clr == <<NOP, NOP, NOP,
                     [ins |-> "amx_set", word |-> LIB_AMX_OP_BASE + 17 * (2^5) + 1, operand |-> {}]>>
lib_amx_set == <<NOP, NOP, NOP,
                 [ins |-> "amx_set", word |-> LIB_AMX_OP_BASE + 17 * (2^5), operand |-> {}]>>
\* the asm! block of amx_clr, lib.rs
lib_amx_clr_set == <<NOP, NOP, NOP,
                 [ins |-> "amx_clr", word |-> LIB_AMX_OP_BASE + 17 * (2^5), operand |-> {}]>>
lib_amx_clr == <<NOP, NOP, NOP,
                 [ins |-> "amx_clr", word |-> LIB_AMX_OP_BASE + 17 * (2^5) + 1, operand |-> {}]>>

-----------------------------------------------------------------------------
(* The coprocessor, as the source documents it: a two-state enable mode,   *)
(* register files X and Y of 8 slots and Z of 64 rows, each of 64 bytes,   *)
(* seen here as 16 f32 lanes holding exact integers.                       *)

Lanes == 0..15
ZeroRow == [q \in Lanes |-> 0]

HwInit == [amx |-> "Disabled",
           x |-> [s \in 0..7 |-> ZeroRow],
           y |-> [s \in 0..7 |-> ZeroRow],
           z |-> [r \in 0..63 |-> ZeroRow],
           fault |-> FALSE]

\* bits [9:5] of an instruction word
WordOpcode(word) == (word \div 32) % 32

\* 16 f32 lanes of a register file starting at byte offset off (circular)
FileVec(file, off) ==
    [q \in Lanes |-> LET lane == ((off \div 4) + q) % 128
                     IN file[lane \div 16][lane % 16]]

\* matrix mode: Z[j*4 + (z_row & 3)][i] += sign * X[i] * Y[j]
\* vector mode: Z[z_row][i] += sign * X[i] * Y[i]
HwFma32(h, operand, sign) ==
    LET xv == FileVec(h.x, NatOf(Field(operand, 10, 9)))
        yv == FileVec(h.y, NatOf(Field(operand, 0, 9)))
        z_row == NatOf(Field(operand, 20, 6))
    IN IF 63 \in operand
       THEN [h EXCEPT !.z[z_row] = [q \in Lanes |-> h.z[z_row][q] + sign * xv[q] * yv[q]]]
       ELSE [h EXCEPT !.z = [r \in 0..63 |->
                IF r % 4 = z_row % 4
                THEN [q \in Lanes |-> h.z[r][q] + sign * xv[q] * yv[r \div 4]]
                ELSE h.z[r]]]

HwLoad(file, size, operand, idx, data) ==
    IF 62 \in operand
    THEN [s \in 0..(size - 1) |->
            IF s = idx THEN data[1]
            ELSE IF s = (idx + 1) % size THEN data[2] ELSE file[s]]
    ELSE [file EXCEPT ![idx] = data[1]]

HwStore(file, size, operand, idx) ==
    IF 62 \in operand THEN <<file[idx], file[(idx + 1) % size]>> ELSE <<file[idx]>>

\* One instruction e = [ins, word, operand] executed with the memory `data`
\* its address operand points at: the coprocessor afterwards and the rows
\* written to memory.  An AMX word other than enable/disable issued while
\* Disabled faults and has no register effect.
HwIssue(h, e, data) ==
    LET opc == WordOpcode(e.word)
        xy == NatOf(Field(e.operand, 56, 3))
        zr == NatOf(Field(e.operand, 56, 6))
        same == [h |-> h, out |-> <<>>]
    IN  IF e.ins = "nop" THEN same
        ELSE IF opc = 17
             THEN [h |-> [h EXCEPT !.amx = IF e.word % 2 = 0 THEN "Enabled" ELSE "Disabled"],
                   out |-> <<>>]
        ELSE IF h.amx = "Disabled" THEN [h |-> [h EXCEPT !.fault = TRUE], out |-> <<>>]
        ELSE CASE opc = 0 -> [h |-> [h EXCEPT !.x = HwLoad(h.x, 8, e.operand, xy, data)], out |-> <<>>]
               [] opc = 1 -> [h |-> [h EXCEPT !.y = HwLoad(h.y, 8, e.operand, xy, data)], out |-> <<>>]
               [] opc = 2 -> [h |-> h, out |-> HwStore(h.x, 8, e.operand, xy)]
               [] opc = 3 -> [h |-> h, out |-> HwStore(h.y, 8, e.operand, xy)]
               [] opc = 4 -> [h |-> [h EXCEPT !.z = HwLoad(h.z, 64, e.operand, zr, data)], out |-> <<>>]
               [] opc = 5 -> [h |-> h, out |-> HwStore(h.z, 64, e.operand, zr)]
               [] opc = 12 -> [h |-> HwFma32(h, e.operand, 1), out |-> <<>>]
               [] opc = 13 -> [h |-> HwFma32(h, e.operand, -1), out |-> <<>>]
               [] OTHER -> same

\* the classes of instruction the lifecycle invariant speaks of
IsLifecycleWord(e) == e.ins # "nop" /\ WordOpcode(e.word) = 17
IsDataWord(e) == e.ins # "nop" /\ WordOpcode(e.word) # 17

-----------------------------------------------------------------------------
(* A running call: the coprocessor, the instructions issued so far (each   *)
(* with the mode it was issued in), the last rows stored to memory.        *)

Machine(h) == [h |-> h, trace |-> <<>>, out |-> <<>>]

\* asm!: issue one instruction
Emit(m, e, data) ==
    LET r == HwIssue(m.h, e, data)
    IN [m EXCEPT !.h = r.h,
                 !.trace = Append(m.trace, [ins |-> e.ins, word |-> e.word,
                                            operand |-> e.operand, at |-> m.h.amx]),
                 !.out = r.out]

RECURSIVE EmitAll(_, _, _)
\* asm!: issue the instructions of one asm! block in order
EmitAll(m, es, k) ==
    IF k > Len(es) THEN m ELSE EmitAll(Emit(m, es[k], <<>>), es, k + 1)

-----------------------------------------------------------------------------
(* ops.rs and lib.rs mod ops: the wrappers, each `raw(encode(args))` *)

\* ops.rs: function -> the raw wrapper it calls and the encoder it uses
OpsTable ==
    [ldx |-> [raw |-> "amx_ldx", enc |-> "xy"], ldy |-> [raw |-> "amx_ldy", enc |-> "xy"],
     ldz |-> [raw |-> "amx_ldz", enc |-> "z"],
     stx |-> [raw |-> "amx_stx", enc |-> "xy"], sty |-> [raw |-> "amx_sty", enc |-> "xy"],
     stz |-> [raw |-> "amx_stz", enc |-> "z"],
     fma32 |-> [raw |-> "amx_fma32", enc |-> "fma"], fma64 |-> [raw |-> "amx_fma64", enc |-> "fma"],
     fma16 |-> [raw |-> "amx_fma16", enc |-> "fma"], fms32 |-> [raw |-> "amx_fms32", enc |-> "fma"],
     fms64 |-> [raw |-> "amx_fms64", enc |-> "fma"], fms16 |-> [raw |-> "amx_fms16", enc |-> "fma"],
     mac16 |-> [raw |-> "amx_mac16", enc |-> "fma"]]

\* lib.rs mod ops
LibOpsTable ==
    [ldx |-> [raw |-> "amx_ldx", enc |-> "xy"], ldy |-> [raw |-> "amx_ldy", enc |-> "xy"],
     ldz |-> [raw |-> "amx_ldz", enc |-> "z"],
     stx |-> [raw |-> "amx_stx", enc |-> "xy"], sty |-> [raw |-> "amx_sty", enc |-> "xy"],
     stz |-> [raw |-> "amx_stz", enc |-> "z"],
     fma32 |-> [raw |-> "amx_fma32", enc |-> "fma"], fma64 |-> [raw |-> "amx_fma64", enc |-> "fma"],
     fma16 |-> [raw |-> "amx_fma16", enc |-> "fma"], mac16 |-> [raw |-> "amx_mac16", enc |-> "fma"]]

\* arguments of a load/store wrapper and of a compute wrapper
LdStArgs(addr, reg, pair) ==
    [addr |-> addr, reg |-> reg, pair |-> pair,
     x_off |-> {}, y_off |-> {}, z_row |-> {}, vector_mode |-> FALSE]
FmaArgs(x_off, y_off, z_row, vector_mode) ==
    [addr |-> {}, reg |-> {}, pair |-> FALSE,
     x_off |-> x_off, y_off |-> y_off, z_row |-> z_row, vector_mode |-> vector_mode]

\* the operand an ops.rs wrapper computes
OpsOperand(kind, args) ==
    CASE kind = "xy" -> encode_xy(args.addr, args.reg, args.pair)
      [] kind = "z" -> encode_z(args.addr, args.reg, args.pair)
      [] kind = "fma" -> encode_fma(args.x_off, args.y_off, args.z_row, args.vector_mode)

\* the operand a lib.rs mod ops wrapper computes
LibOpsOperand(kind, args) ==
    CASE kind = "xy" -> encode_xy_ldst(args.addr, args.reg, args.pair)
      [] kind = "z" -> encode_z_ldst(args.addr, args.reg, args.pair)
      [] kind = "fma" -> lib_encode_fma(args.x_off, args.y_off, args.z_row, args.vector_mode)

\* ops::<fn>(args) of ops.rs, with `data` the memory at args.addr
ops_call(m, fn, args, data) ==
    Emit(m, [ins |-> OpsTable[fn].raw,
             word |-> WrapperWord("raw", OpsTable[fn].raw),
             operand |-> OpsOperand(OpsTable[fn].enc, args)], data)

\* ops::<fn>(args) of lib.rs
lib_ops_call(m, fn, args, data) ==
    Emit(m, [ins |-> LibOpsTable[fn].raw,
             word |-> WrapperWord("lib", LibOpsTable[fn].raw),
             operand |-> LibOpsOperand(LibOpsTable[fn].enc, args)], data)

-----------------------------------------------------------------------------
(* lib.rs: detection *)

\* sysctl_string either fails or yields the brand string (its tokens)
Brands == {[ok |-> FALSE, tokens |-> {}],
           [ok |-> TRUE, tokens |-> {"Intel"}],
           [ok |-> TRUE, tokens |-> {"Apple", "M1"}],
           [ok |-> TRUE, tokens |-> {"Apple"}]}

detect_internal(br) ==
    IF ~br.ok THEN "None"
    ELSE IF "Apple" \notin br.tokens THEN "None"
    ELSE IF "M1" \in br.tokens THEN "M1"
    ELSE IF "M2" \in br.tokens THEN "M2"
    ELSE IF "M3" \in br.tokens THEN "M3"
    ELSE IF "M4" \in br.tokens THEN "M4"
    ELSE "Unknown"

\* AMX_AVAILABLE.get_or_init(detect_internal): the cell afterwards
get_or_init(cl, br) == IF cl = <<>> THEN <<detect_internal(br)>> ELSE cl

\* detect(), given the cell after get_or_init
detect(cl, br) == get_or_init(cl, br)[1]

is_available_always(cl, br) == TRUE
is_available(cl, br) == detect(cl, br) # "None"

-----------------------------------------------------------------------------
(* usize arithmetic *)

UsizeMod == 2^WordBits

\* an arithmetic result: its wrapped value, and whether it overflowed
Usize(v) == [v |-> v % UsizeMod, ovf |-> v >= UsizeMod]

\* a debug build panics on overflow, a release build wraps
OverflowPanics(bld, r) == bld = "debug" /\ r.ovf

-----------------------------------------------------------------------------
(* lib.rs: sgemm::matmul *)

\* addresses of the scratch arrays tmp, a_col, b_row on the stack
TmpAddr == {4, 9, 20, 33}
AColAddr == {5, 9, 20, 33}
BRowAddr == {6, 9, 20, 33}

Fail(m) == [m EXCEPT !.panic = TRUE]

\* for row in 0..16.min(n - i): seed Z row row*4 from C[i+row, j..]
\* the seed loading logical row `row` into Z row `row`, not row * 4
SeedRow_unscaled(m, bld, n, i, j, row) ==
    LET start == Usize((i + row) * n + j)
        load_len == Min(16, n - j)
    IN IF OverflowPanics(bld, start) \/ start.v > Len(m.c) THEN Fail(m)
       ELSE IF load_len > Len(m.c) - start.v THEN Fail(m)
       ELSE LET tmp == [q \in Lanes |-> IF q < load_len THEN m.c[start.v + q + 1] ELSE 0]
            IN lib_ops_call(m, "ldz", LdStArgs(TmpAddr, U64(row), FALSE), <<tmp>>)

SeedRow(m, bld, n, i, j, row) ==
    LET start == Usize((i + row) * n + j)
        load_len == Min(16, n - j)
    IN IF OverflowPanics(bld, start) \/ start.v > Len(m.c) THEN Fail(m)
       ELSE IF load_len > Len(m.c) - start.v THEN Fail(m)
       ELSE LET tmp == [q \in Lanes |-> IF q < load_len THEN m.c[start.v + q + 1] ELSE 0]
            IN lib_ops_call(m, "ldz", LdStArgs(TmpAddr, U64(row * 4), FALSE), <<tmp>>)

RECURSIVE SeedLoop(_, _, _, _, _, _)
SeedLoop(m, bld, n, i, j, row) ==
    IF m.panic \/ row >= Min(16, n - i) THEN m
    ELSE SeedLoop(SeedRow(m, bld, n, i, j, row), bld, n, i, j, row + 1)

\* one kk iteration: gather column k+kk of the A tile into Y slot 0, row
\* k+kk of the B tile into X slot 0, then one outer-product FMA
AccStep(m, bld, a, b, n, i, j, k, kk) ==
    LET rows == Min(16, n - i)
        aidx == [row \in 0..(rows - 1) |-> Usize((i + row) * n + k + kk)]
        a_bad == \E row \in 0..(rows - 1) :
                    OverflowPanics(bld, aidx[row]) \/ aidx[row].v >= Len(a)
        a_col == [q \in Lanes |-> IF q < rows THEN a[aidx[q].v + 1] ELSE 0]
        b_start == Usize((k + kk) * n + j)
        b_len == Min(16, n - j)
        b_end == Usize(b_start.v + b_len)
        b_bad == \/ OverflowPanics(bld, b_start) \/ OverflowPanics(bld, b_end)
                 \/ b_start.v > b_end.v \/ b_end.v > Len(b)
        b_row == [q \in Lanes |-> IF q < b_len THEN b[b_start.v + q + 1] ELSE 0]
    IN IF a_bad THEN Fail(m)
       ELSE LET m1 == lib_ops_call(m, "ldy", LdStArgs(AColAddr, U64(0), FALSE), <<a_col>>)
            IN IF b_bad THEN Fail(m1)
               ELSE LET m2 == lib_ops_call(m1, "ldx", LdStArgs(BRowAddr, U64(0), FALSE), <<b_row>>)
                        m3 == lib_ops_call(m2, "fma32",
                                           FmaArgs(U64(0), U64(0), U64(0), FALSE), <<>>)
                    IN [m3 EXCEPT !.accs = Append(@, [i |-> i, j |-> j, idx |-> k + kk])]

RECURSIVE AccLoopKK(_, _, _, _, _, _, _, _, _)
AccLoopKK(m, bld, a, b, n, i, j, k, kk) ==
    IF m.panic \/ kk >= Min(16, n - k) THEN m
    ELSE AccLoopKK(AccStep(m, bld, a, b, n, i, j, k, kk), bld, a, b, n, i, j, k, kk + 1)

RECURSIVE AccLoopK(_, _, _, _, _, _, _, _)
AccLoopK(m, bld, a, b, n, i, j, k) ==
    IF m.panic \/ k >= n THEN m
    ELSE AccLoopK(AccLoopKK(m, bld, a, b, n, i, j, k, 0), bld, a, b, n, i, j, k + 16)

\* for row in 0..16.min(n - i): drain Z row row*4 into C[i+row, j..]
StoreRow(m, bld, n, i, j, row) ==
    LET m1 == lib_ops_call(m, "stz", LdStArgs(TmpAddr, U64(row * 4), FALSE), <<ZeroRow>>)
        tmp == IF m1.out = <<>> THEN ZeroRow ELSE m1.out[1]
        store_len == Min(16, n - j)
        start == Usize((i + row) * n + j)
    IN IF OverflowPanics(bld, start) \/ start.v > Len(m1.c) THEN Fail(m1)
       ELSE IF store_len > Len(m1.c) - start.v THEN Fail(m1)
       ELSE [m1 EXCEPT !.c = [p \in 1..Len(m1.c) |->
                IF p > start.v /\ p <= start.v + store_len
                THEN tmp[p - start.v - 1] ELSE m1.c[p]],
                       !.stores = Append(@, [i |-> i, j |-> j, start |-> start.v,
                                             len |-> store_len])]

RECURSIVE StoreLoop(_, _, _, _, _, _)
StoreLoop(m, bld, n, i, j, row) ==
    IF m.panic \/ row >= Min(16, n - i) THEN m
    ELSE StoreLoop(StoreRow(m, bld, n, i, j, row), bld, n, i, j, row + 1)

\* the body of the j loop: one output tile
Tile(m, bld, a, b, n, i, j) ==
    StoreLoop(AccLoopK(SeedLoop(m, bld, n, i, j, 0), bld, a, b, n, i, j, 0), bld, n, i, j, 0)

RECURSIVE TileLoopJ(_, _, _, _, _, _, _)
TileLoopJ(m, bld, a, b, n, i, j) ==
    IF m.panic \/ j >= n THEN m
    ELSE TileLoopJ(Tile(m, bld, a, b, n, i, j), bld, a, b, n, i, j + 16)

RECURSIVE TileLoopI(_, _, _, _, _, _)
TileLoopI(m, bld, a, b, n, i) ==
    IF m.panic \/ i >= n THEN m
    ELSE TileLoopI(TileLoopJ(m, bld, a, b, n, i, 0), bld, a, b, n, i + 16)

\* the result of a call: the coprocessor, the instructions issued, C, the
\* reduction indices accumulated and the ranges of C the drains wrote, in
\* order, and how control left the function
Exit(m, how) ==
    [h |-> m.h, trace |-> m.trace, c |-> m.c, accs |-> m.accs, stores |-> m.stores,
     outcome |-> how]

\* matmul with the C length assertion (checkC) or the n == 0 return (earlyRet) left out
matmul_variant(h, bld, avail, a, b, c, n, checkC, earlyRet) ==
    LET m0 == [h |-> h, trace |-> <<>>, out |-> <<>>, c |-> c, accs |-> <<>>, stores |-> <<>>, panic |-> FALSE]
        nn == Usize(n * n)
    IN IF ~avail THEN Exit(m0, "panic_unavailable")
       ELSE IF OverflowPanics(bld, nn) THEN Exit(m0, "panic_overflow")
       ELSE IF Len(a) # nn.v THEN Exit(m0, "panic_len_a")
       ELSE IF Len(b) # nn.v THEN Exit(m0, "panic_len_b")
       ELSE IF checkC /\ Len(c) # nn.v THEN Exit(m0, "panic_len_c")
       ELSE IF earlyRet /\ n = 0 THEN Exit(m0, "return_n0")
       ELSE LET m1 == [m0 EXCEPT !.c = [p \in 1..Len(c) |-> 0]]
                m2 == EmitAll(m1, lib_amx_set, 1)
                m3 == TileLoopI(m2, bld, a, b, n, 0)
            IN IF m3.panic THEN Exit(m3, "panic_index")
               ELSE Exit(EmitAll(m3, lib_amx_clr, 1), "ok")
matmul_no_len_c(h, bld, avail, a, b, c, n) ==
    matmul_variant(h, bld, avail, a, b, c, n, FALSE, TRUE)
matmul_no_early_return(h, bld, avail, a, b, c, n) ==
    matmul_variant(h, bld, avail, a, b, c, n, TRUE, FALSE)

\* sgemm::matmul(a, b, c, n) on coprocessor h, with `avail` = is_available()
matmul(h, bld, avail, a, b, c, n) ==
    LET m0 == [h |-> h, trace |-> <<>>, out |-> <<>>, c |-> c, accs |-> <<>>, stores |-> <<>>, panic |-> FALSE]
        nn == Usize(n * n)
    IN IF ~avail THEN Exit(m0, "panic_unavailable")
       ELSE IF OverflowPanics(bld, nn) THEN Exit(m0, "panic_overflow")
       ELSE IF Len(a) # nn.v THEN Exit(m0, "panic_len_a")
       ELSE IF Len(b) # nn.v THEN Exit(m0, "panic_len_b")
       ELSE IF Len(c) # nn.v THEN Exit(m0, "panic_len_c")
       ELSE IF n = 0 THEN Exit(m0, "return_n0")
       ELSE LET m1 == [m0 EXCEPT !.c = [p \in 1..Len(c) |-> 0]]
                m2 == EmitAll(m1, lib_amx_set, 1)
                m3 == TileLoopI(m2, bld, a, b, n, 0)
            IN IF m3.panic THEN Exit(m3, "panic_index")
               ELSE Exit(EmitAll(m3, lib_amx_clr, 1), "ok")

\* sgemm::sgemm_raw(a, b, c, size): a, b, c are the memory the pointers are
\* valid for; the slices made from them have size*size elements
sgemm_raw(h, bld, avail, a, b, c, size) ==
    LET m0 == [h |-> h, trace |-> <<>>, out |-> <<>>, c |-> c, accs |-> <<>>, stores |-> <<>>, panic |-> FALSE]
        len == Usize(size * size)
    IN IF size = 0 \/ ~avail THEN Exit(m0, "return_early")
       ELSE IF OverflowPanics(bld, len) THEN Exit(m0, "panic_overflow")
       ELSE LET r == matmul(h, bld, avail, SubSeq(a, 1, len.v), SubSeq(b, 1, len.v),
                            SubSeq(c, 1, len.v), size)
            IN [r EXCEPT !.c = r.c \o SubSeq(c, len.v + 1, Len(c))]

-----------------------------------------------------------------------------
(* The thread's calls into the crate *)

\* number of concurrent callers, and of calls they make between them
NThreads == 3
MaxCalls == 3

Threads == 1..NThreads

\* a thread outside detect()/is_available(), having called neither yet
IdleThread == [pc |-> "idle", fn |-> "", local |-> "", rets |-> <<>>,
               slow |-> 0, evals |-> 0, writes |-> 0]
NoThreads == [t \in Threads |-> IdleThread]

NoCall == [name |-> "none", layer |-> "", fn |-> "", outcome |-> "", pre |-> "Disabled",
           avail |-> FALSE, n |-> 0, a |-> <<>>, b |-> <<>>, c0 |-> <<>>, c |-> <<>>,
           out |-> <<>>, accs |-> <<>>, stores |-> <<>>]

NoEnc == [fn |-> "none", addr |-> {}, reg |-> {}, pair |-> FALSE,
          x_off |-> {}, y_off |-> {}, z_row |-> {}, vector_mode |-> FALSE, out |-> {}]

\* the enable/disable words among the instructions a call issued, with the
\* issuer and the number of guards live after the call
LifecycleOf(tr, by, live) ==
    LET sel == SelectSeq(tr, IsLifecycleWord)
    IN [k \in 1..Len(sel) |-> [word |-> sel[k].word, by |-> by, live |-> live]]

\* room for k more enable/disable words, and for the drop of every live guard
Room(k) == Len(lifecycle) + guards + k <= MaxLifecycle

Init ==
    /\ brand \in Brands
    /\ build \in {"debug", "release"}
    /\ cell = <<>>
    /\ hw = HwInit
    /\ guards = 0
    /\ lifecycle = <<>>
    /\ trace = <<>>
    /\ call = NoCall
    /\ enc = NoEnc
    /\ threads = NoThreads

\* AmxGuard::new() (how = "new"), AmxGuard::default() (how = "default")
GuardNew(how) ==
    \E avail \in {is_available(cell, brand)} : \E m \in {EmitAll(Machine(hw), lib_amx_set, 1)} :
       /\ ~hw.fault
       /\ Room(2)
       /\ cell' = get_or_init(cell, brand)
       /\ IF avail
          THEN /\ hw' = m.h
               /\ guards' = guards + 1
               /\ trace' = m.trace
               /\ lifecycle' = lifecycle \o LifecycleOf(m.trace, "guard", guards + 1)
               /\ call' = [NoCall EXCEPT !.name = how, !.outcome = "guard",
                                         !.pre = hw.amx, !.avail = avail]
          ELSE /\ trace' = <<>>
               /\ call' = [NoCall EXCEPT !.name = how, !.outcome = "panic_unavailable",
                                         !.pre = hw.amx, !.avail = avail]
               /\ UNCHANGED <<hw, guards, lifecycle>>
       /\ UNCHANGED <<brand, build, enc, threads>>

\* AmxGuard::try_new()
GuardTryNew ==
    \E avail \in {is_available(cell, brand)} : \E m \in {EmitAll(Machine(hw), lib_amx_set, 1)} :
       /\ ~hw.fault
       /\ Room(2)
       /\ cell' = get_or_init(cell, brand)
       /\ IF avail
          THEN /\ hw' = m.h
               /\ guards' = guards + 1
               /\ trace' = m.trace
               /\ lifecycle' = lifecycle \o LifecycleOf(m.trace, "guard", guards + 1)
               /\ call' = [NoCall EXCEPT !.name = "try_new", !.outcome = "Some",
                                         !.pre = hw.amx, !.avail = avail]
          ELSE /\ trace' = <<>>
               /\ call' = [NoCall EXCEPT !.name = "try_new", !.outcome = "None",
                                         !.pre = hw.amx, !.avail = avail]
               /\ UNCHANGED <<hw, guards, lifecycle>>
       /\ UNCHANGED <<brand, build, enc, threads>>

\* a drop that disables only when the last live guard goes (a reference count)
GuardDrop_refcounted ==
    \E m \in {IF guards = 1 THEN EmitAll(Machine(hw), lib_amx_clr, 1) ELSE Machine(hw)} :
       /\ ~hw.fault
       /\ guards > 0
       /\ hw' = m.h
       /\ guards' = guards - 1
       /\ trace' = m.trace
       /\ lifecycle' = lifecycle \o LifecycleOf(m.trace, "guard", guards - 1)
       /\ call' = [NoCall EXCEPT !.name = "drop", !.outcome = "dropped", !.pre = hw.amx]
       /\ UNCHANGED <<brand, build, cell, enc, threads>>

\* Drop for AmxGuard
GuardDrop ==
    \E m \in {EmitAll(Machine(hw), lib_amx_clr, 1)} :
       /\ ~hw.fault
       /\ guards > 0
       /\ hw' = m.h
       /\ guards' = guards - 1
       /\ trace' = m.trace
       /\ lifecycle' = lifecycle \o LifecycleOf(m.trace, "guard", guards - 1)
       /\ call' = [NoCall EXCEPT !.name = "drop", !.outcome = "dropped", !.pre = hw.amx]
       /\ UNCHANGED <<brand, build, cell, enc, threads>>

\* the memory an ops call points at: 128 zero bytes, so that pair = true is valid
OpsBuffer == <<ZeroRow, ZeroRow>>

\* argument values the calls are made with (9 and 70 are out of range)
OpsRows == {U64(0), U64(70)}
OpsArgs(kind) ==
    IF kind = "xy" THEN {LdStArgs(TmpAddr, U64(0), FALSE), LdStArgs(TmpAddr, U64(9), TRUE)}
    ELSE IF kind = "z" THEN {LdStArgs(TmpAddr, r, FALSE) : r \in OpsRows}
    ELSE {FmaArgs(U64(0), U64(0), U64(0), v) : v \in BOOLEAN}

\* ops::<fn>(..) of ops.rs (layer "raw") or of lib.rs (layer "lib"), called
\* by a caller who holds a guard, as the module's safety contract asks
OpsCall(layer, fn, args) ==
    \E m \in {IF layer = "raw" THEN ops_call(Machine(hw), fn, args, OpsBuffer)
             ELSE lib_ops_call(Machine(hw), fn, args, OpsBuffer)} :
       /\ ~hw.fault
       /\ guards > 0
       /\ hw' = m.h
       /\ trace' = m.trace
       /\ call' = [NoCall EXCEPT !.name = "ops", !.layer = layer, !.fn = fn,
                                 !.outcome = IF m.h.fault THEN "fault" ELSE "ok",
                                 !.pre = hw.amx, !.out = m.out]
       /\ UNCHANGED <<brand, build, cell, guards, lifecycle, enc, threads>>

\* the smallest n whose square wraps to 0
OverflowN == 2^((WordBits + 1) \div 2)

\* matrix sizes of the lifecycle specification
SpecSizes == {0, 1, OverflowN, OverflowN + 1}

\* buffer contents
APat(len) == [p \in 1..len |-> 0]
BPat(len) == [p \in 1..len |-> 0]
CPat(len) == [p \in 1..len |-> 5]

\* lengths of a, b, c as differences from n*n: right, or one of them off by one
LenDeltas == {<<0, 0, 0>>, <<1, 0, 0>>, <<-1, 0, 0>>, <<0, 1, 0>>, <<0, -1, 0>>,
              <<0, 0, 1>>, <<0, 0, -1>>}

\* sgemm::matmul(a, b, c, n)
MatmulCall(n, a, b, c) ==
    \E avail \in {is_available(cell, brand)} : \E r \in {matmul(hw, build, avail, a, b, c, n)} :
       /\ ~hw.fault
       /\ Room(2)
       /\ cell' = get_or_init(cell, brand)
       /\ hw' = r.h
       /\ trace' = r.trace
       /\ lifecycle' = lifecycle \o LifecycleOf(r.trace, "matmul", guards)
       /\ call' = [NoCall EXCEPT !.name = "matmul", !.outcome = r.outcome, !.pre = hw.amx,
                                 !.avail = avail, !.n = n, !.a = a, !.b = b, !.c0 = c, !.c = r.c,
                                 !.accs = r.accs, !.stores = r.stores]
       /\ UNCHANGED <<brand, build, guards, enc, threads>>

\* sgemm::matmul with buffers whose lengths differ from n*n by d
Matmul(n, d) ==
    LET want == Usize(n * n).v
    IN /\ want + d[1] >= 0 /\ want + d[2] >= 0 /\ want + d[3] >= 0
       /\ MatmulCall(n, APat(want + d[1]), BPat(want + d[2]), CPat(want + d[3]))

\* sgemm::sgemm_raw(a, b, c, size), the pointers valid for `extra` elements
\* more than the slices take
SgemmRaw(size, extra) ==
    \E avail \in {is_available(cell, brand)} : \E want \in {Usize(size * size).v} :
    \E a \in {APat(want + extra)} : \E b \in {BPat(want + extra)} : \E c \in {CPat(want + extra)} :
    \E r \in {sgemm_raw(hw, build, avail, a, b, c, size)} :
       /\ ~hw.fault
       /\ Room(2)
       /\ cell' = IF size = 0 THEN cell ELSE get_or_init(cell, brand)
       /\ hw' = r.h
       /\ trace' = r.trace
       /\ lifecycle' = lifecycle \o LifecycleOf(r.trace, "matmul", guards)
       /\ call' = [NoCall EXCEPT !.name = "sgemm_raw", !.outcome = r.outcome, !.pre = hw.amx,
                                 !.avail = avail, !.n = size, !.a = a, !.b = b, !.c0 = c, !.c = r.c,
                                 !.accs = r.accs, !.stores = r.stores]
       /\ UNCHANGED <<brand, build, guards, enc, threads>>

Next ==
    \/ \E how \in {"new", "default"} : GuardNew(how)
    \/ GuardTryNew
    \/ GuardDrop
    \/ \E fn \in DOMAIN OpsTable : \E args \in OpsArgs(OpsTable[fn].enc) : OpsCall("raw", fn, args)
    \/ \E fn \in DOMAIN LibOpsTable : \E args \in OpsArgs(LibOpsTable[fn].enc) : OpsCall("lib", fn, args)
    \/ \E n \in SpecSizes : \E d \in LenDeltas : Matmul(n, d)
    \/ \E size \in SpecSizes : \E extra \in {0, 1} : SgemmRaw(size, extra)

Spec == Init /\ [][Next]_vars

-----------------------------------------------------------------------------
(* The raw layer, called directly *)

\* raw::amx_set() / raw::amx_clr() (layer "raw") or the crate root's (layer "lib")
RawLifecycle(layer, which) ==
    \E es \in {IF layer = "raw" THEN (IF which = "amx_set" THEN amx_set ELSE amx_clr)
                ELSE (IF which = "amx_set" THEN lib_amx_set ELSE lib_amx_clr)} :
    \E m \in {EmitAll(Machine(hw), es, 1)} :
       /\ ~hw.fault
       /\ Len(lifecycle) < MaxRawLifecycle
       /\ hw' = m.h
       /\ trace' = m.trace
       /\ lifecycle' = lifecycle \o LifecycleOf(m.trace, "raw", guards)
       /\ call' = [NoCall EXCEPT !.name = which, !.layer = layer, !.outcome = "ok", !.pre = hw.amx]
       /\ UNCHANGED <<brand, build, cell, guards, enc, threads>>

\* operands the raw wrappers are called with
RawOperands == {{}, {0, 56, 62}}

\* raw::amx_<op>(operand): one of the define_amx_op! wrappers
RawOp(layer, name, operand) ==
    \E m \in {Emit(Machine(hw), [ins |-> name, word |-> WrapperWord(layer, name),
                                operand |-> operand], OpsBuffer)} :
       /\ ~hw.fault
       /\ hw' = m.h
       /\ trace' = m.trace
       /\ call' = [NoCall EXCEPT !.name = "raw_op", !.layer = layer, !.fn = name,
                                 !.outcome = IF m.h.fault THEN "fault" ELSE "ok",
                                 !.pre = hw.amx, !.out = m.out]
       /\ UNCHANGED <<brand, build, cell, guards, lifecycle, enc, threads>>

RawNext ==
    \/ \E layer \in {"raw", "lib"} : \E which \in {"amx_set", "amx_clr"} : RawLifecycle(layer, which)
    \/ \E layer \in {"raw", "lib"} : \E name \in RawNames : \E operand \in RawOperands :
          RawOp(layer, name, operand)

SpecRaw == Init /\ [][RawNext]_vars

-----------------------------------------------------------------------------
(* sgemm::matmul on the boundary sizes, with data *)

BoundarySizes == {0, 1, 15, 16, 17, 31, 32, 33}

\* a coprocessor that earlier work left disabled with stale registers
HwDirty == [amx |-> "Disabled",
            x |-> [s \in 0..7 |-> [q \in Lanes |-> 7]],
            y |-> [s \in 0..7 |-> [q \in Lanes |-> 3]],
            z |-> [r \in 0..63 |-> [q \in Lanes |-> 9]],
            fault |-> FALSE]

\* A: the identity of test_matmul_small, or a mix of -1, 0, 1
GemmA(kind, n) ==
    [p \in 1..(n * n) |->
        IF kind = "identity" THEN (IF (p - 1) % (n + 1) = 0 THEN 1 ELSE 0)
        ELSE ((((p - 1) \div n) + 2 * ((p - 1) % n)) % 3) - 1]

\* B: the column ramp of test_matmul_small, or a mix of -2 .. 2
GemmB(kind, n) ==
    [p \in 1..(n * n) |->
        IF kind = "ramp" THEN (p - 1) % n
        ELSE ((3 * ((p - 1) \div n) + ((p - 1) % n)) % 5) - 2]

InitGemm ==
    /\ brand = [ok |-> TRUE, tokens |-> {"Apple", "M1"}]
    /\ build \in {"debug", "release"}
    /\ cell = <<>>
    /\ hw \in {HwInit, HwDirty}
    /\ guards = 0
    /\ lifecycle = <<>>
    /\ trace = <<>>
    /\ call = NoCall
    /\ enc = NoEnc
    /\ threads = NoThreads

GemmMatmul(n, ak, bk) ==
    /\ call.name = "none"
    /\ MatmulCall(n, GemmA(ak, n), GemmB(bk, n), CPat(n * n))

NextGemm ==
    \E n \in BoundarySizes : \E ak \in {"identity", "mixed"} : \E bk \in {"ramp", "mixed"} :
        GemmMatmul(n, ak, bk)

SpecGemm == InitGemm /\ [][NextGemm]_vars

-----------------------------------------------------------------------------
(* The encoders, applied to 64-bit inputs in and out of range *)

\* addresses: zero, the low and the top address bit, bits above the field, all ones
EncAddrs == {{}, {0, 55}, {3, 56, 62, 63}, Bits64}
\* small fields: in range, the first bit out of range of each width, high bits, all ones
EncFields == {{}, {0}, {0, 1, 2}, {1, 3}, {0, 5}, {2, 6}, {0, 8}, {4, 9}, {1, 40, 63}, Bits64}

\* the arguments the encoders are applied to
EncInputs ==
    {LdStArgs(addr, reg, pair) : addr \in EncAddrs, reg \in EncFields, pair \in BOOLEAN}
    \cup {FmaArgs(x_off, y_off, z_row, vector_mode) :
            x_off \in EncFields, y_off \in EncFields, z_row \in EncFields,
            vector_mode \in BOOLEAN}

EncRec(fn, args, out) ==
    [fn |-> fn, addr |-> args.addr, reg |-> args.reg, pair |-> args.pair,
     x_off |-> args.x_off, y_off |-> args.y_off, z_row |-> args.z_row,
     vector_mode |-> args.vector_mode, out |-> out]

\* an encoder applied to the arguments drawn
Encoded(fn, out) ==
    /\ enc.fn = "none"
    /\ enc' = [enc EXCEPT !.fn = fn, !.out = out]
    /\ UNCHANGED <<brand, build, cell, hw, guards, lifecycle, trace, call, threads>>

\* ops.rs
EncodeXY == Encoded("encode_xy", encode_xy(enc.addr, enc.reg, enc.pair))
EncodeZ == Encoded("encode_z", encode_z(enc.addr, enc.reg, enc.pair))
EncodeFma == Encoded("encode_fma", encode_fma(enc.x_off, enc.y_off, enc.z_row, enc.vector_mode))
\* lib.rs mod ops
EncodeXYLdst == Encoded("encode_xy_ldst", encode_xy_ldst(enc.addr, enc.reg, enc.pair))
EncodeZLdst == Encoded("encode_z_ldst", encode_z_ldst(enc.addr, enc.reg, enc.pair))
LibEncodeFma ==
    Encoded("lib_encode_fma", lib_encode_fma(enc.x_off, enc.y_off, enc.z_row, enc.vector_mode))

InitEnc ==
    /\ brand = [ok |-> TRUE, tokens |-> {"Apple", "M1"}]
    /\ build = "release"
    /\ cell = <<>>
    /\ hw = HwInit
    /\ guards = 0
    /\ lifecycle = <<>>
    /\ trace = <<>>
    /\ call = NoCall
    /\ enc \in {EncRec("none", args, {}) : args \in EncInputs}
    /\ threads = NoThreads

NextEnc ==
    \/ EncodeXY \/ EncodeZ \/ EncodeFma
    \/ EncodeXYLdst \/ EncodeZLdst \/ LibEncodeFma

SpecEnc == InitEnc /\ [][NextEnc]_vars

-----------------------------------------------------------------------------
(* detect() and is_available() called from several threads *)

RECURSIVE SumOver(_, _, _)
\* threads[1].field + ... + threads[n].field
SumOver(th, field, n) == IF n = 0 THEN 0 ELSE th[n][field] + SumOver(th, field, n - 1)

\* calls begun so far
CallsBegun ==
    SumOver([t \in Threads |-> [v |-> Len(threads[t].rets)
                                       + IF threads[t].pc = "idle" THEN 0 ELSE 1]], "v", NThreads)

\* the Once of AMX_AVAILABLE, without synchronisation: a closure that is
\* running is not seen by the other threads
OnceState_unsynchronised == IF cell # <<>> THEN "complete" ELSE "incomplete"

\* the Once of AMX_AVAILABLE: complete when the cell is set, running while a
\* thread is inside the initialising closure
OnceState ==
    IF cell # <<>> THEN "complete"
    ELSE IF \E t \in Threads : threads[t].pc \in {"init", "write"} THEN "running"
    ELSE "incomplete"

\* thread t calls detect() (fn = "detect") or is_available() (fn = "is_available")
DetectCall(t, fn) ==
    /\ threads[t].pc = "idle"
    /\ CallsBegun < MaxCalls
    /\ threads' = [threads EXCEPT ![t].pc = "get", ![t].fn = fn]
    /\ UNCHANGED <<brand, build, cell, hw, guards, lifecycle, trace, call, enc>>

\* get_or_init, fast path: the cell is read if it is already set
FastPath(t) ==
    /\ threads[t].pc = "get"
    /\ threads' = IF cell # <<>>
                  THEN [threads EXCEPT ![t].pc = "return", ![t].local = cell[1]]
                  ELSE [threads EXCEPT ![t].pc = "call_once", ![t].slow = @ + 1]
    /\ UNCHANGED <<brand, build, cell, hw, guards, lifecycle, trace, call, enc>>

\* get_or_init, slow path: the first thread to arrive runs the closure, a
\* thread that arrives while it runs waits, one that arrives later reads
CallOnce(t) ==
    /\ threads[t].pc = "call_once"
    /\ OnceState # "running"
    /\ threads' = IF OnceState = "incomplete"
                  THEN [threads EXCEPT ![t].pc = "init"]
                  ELSE [threads EXCEPT ![t].pc = "return", ![t].local = cell[1]]
    /\ UNCHANGED <<brand, build, cell, hw, guards, lifecycle, trace, call, enc>>

\* the closure: detect_internal()
RunInit(t) ==
    /\ threads[t].pc = "init"
    /\ threads' = [threads EXCEPT ![t].pc = "write", ![t].local = detect_internal(brand),
                                  ![t].evals = @ + 1]
    /\ UNCHANGED <<brand, build, cell, hw, guards, lifecycle, trace, call, enc>>

\* the closure's result is stored and the Once completes
WriteCell(t) ==
    /\ threads[t].pc = "write"
    /\ cell' = <<threads[t].local>>
    /\ threads' = [threads EXCEPT ![t].pc = "return", ![t].writes = @ + 1]
    /\ UNCHANGED <<brand, build, hw, guards, lifecycle, trace, call, enc>>

\* detect() returns the value, is_available() returns is_some()
DetectReturn(t) ==
    /\ threads[t].pc = "return"
    /\ threads' = [threads EXCEPT
                     ![t].pc = "idle",
                     ![t].rets = Append(@, [fn |-> threads[t].fn,
                                            val |-> IF threads[t].fn = "detect"
                                                    THEN threads[t].local
                                                    ELSE IF threads[t].local # "None"
                                                         THEN "true" ELSE "false"])]
    /\ UNCHANGED <<brand, build, cell, hw, guards, lifecycle, trace, call, enc>>

NextDetect ==
    \/ \E t \in Threads : \E fn \in {"detect", "is_available"} : DetectCall(t, fn)
    \/ \E t \in Threads : FastPath(t)
    \/ \E t \in Threads : CallOnce(t)
    \/ \E t \in Threads : RunInit(t)
    \/ \E t \in Threads : WriteCell(t)
    \/ \E t \in Threads : DetectReturn(t)

\* any brand string, the cell unset, no thread inside a call
InitDetect ==
    /\ brand \in Brands
    /\ build = "release"
    /\ cell = <<>>
    /\ hw = HwInit
    /\ guards = 0
    /\ lifecycle = <<>>
    /\ trace = <<>>
    /\ call = NoCall
    /\ enc = NoEnc
    /\ threads = NoThreads

SpecDetect == InitDetect /\ [][NextDetect]_vars

-----------------------------------------------------------------------------
(* test_ldx_stx_roundtrip: a pattern through a register-file slot and back *)

\* addresses of the input and output arrays (64-byte aligned, below 2^56)
InputAddr == {6, 12, 33, 40}
OutputAddr == {7, 12, 33, 40}

\* 16-lane patterns: the test's from_fn(|i| i as f32), and two others
RtPatterns ==
    {[q \in Lanes |-> q],
     [q \in Lanes |-> 100 - 7 * q],
     [q \in Lanes |-> IF q % 2 = 0 THEN -1 ELSE 1048576 + q]}

\* registers holding what earlier code left in them, different in every slot
HwStale == [amx |-> "Disabled",
            x |-> [r \in 0..7 |-> [q \in Lanes |-> 40 + r]],
            y |-> [r \in 0..7 |-> [q \in Lanes |-> 60 + r]],
            z |-> [r \in 0..63 |-> [q \in Lanes |-> 9]],
            fault |-> FALSE]

\* the operand an ops wrapper of the layer computes for a load/store
RtOperand(layer, args) ==
    IF layer = "raw" THEN OpsOperand("xy", args) ELSE LibOpsOperand("xy", args)

\* the 64 bytes the coprocessor finds at the address in the operand
MemAt(mem, operand) ==
    LET at == Field(operand, 0, 56)
    IN IF at \in DOMAIN mem THEN mem[at] ELSE ZeroRow

InitRoundTrip ==
    /\ brand = [ok |-> TRUE, tokens |-> {"Apple", "M1"}]
    /\ build = "release"
    /\ cell = <<>>
    /\ hw \in {HwInit, HwStale}
    /\ guards = 0
    /\ lifecycle = <<>>
    /\ trace = <<>>
    /\ call = NoCall
    /\ enc = NoEnc
    /\ threads = NoThreads

\* ops::ldx(input.as_ptr().cast(), slot, false) (file = "x") or ops::ldy (file = "y"),
\* right after the guard was taken
RtLoad(layer, file, slot, pat) ==
    \E fn \in {IF file = "x" THEN "ldx" ELSE "ldy"} :
    \E args \in {LdStArgs(InputAddr, U64(slot), FALSE)} :
    \E mem \in {[at \in {InputAddr, OutputAddr} |-> IF at = InputAddr THEN pat ELSE ZeroRow]} :
    \E data \in {<<MemAt(mem, RtOperand(layer, args))>>} :
    \E m \in {IF layer = "raw" THEN ops_call(Machine(hw), fn, args, data)
             ELSE lib_ops_call(Machine(hw), fn, args, data)} :
       /\ ~hw.fault
       /\ guards = 1
       /\ call.name = "try_new"
       /\ hw' = m.h
       /\ trace' = m.trace
       /\ call' = [NoCall EXCEPT !.name = "rt_load", !.layer = layer, !.fn = fn,
                                 !.outcome = IF m.h.fault THEN "fault" ELSE "ok",
                                 !.pre = hw.amx, !.n = slot, !.a = pat,
                                 !.c0 = ZeroRow, !.c = ZeroRow]
       /\ UNCHANGED <<brand, build, cell, guards, lifecycle, enc, threads>>

\* ops::stx(output.as_mut_ptr().cast(), slot, false) or ops::sty, right after the load
RtStore ==
    \E fn \in {IF call.fn = "ldx" THEN "stx" ELSE "sty"} :
    \E args \in {LdStArgs(OutputAddr, U64(call.n), FALSE)} :
    \E m \in {IF call.layer = "raw" THEN ops_call(Machine(hw), fn, args, <<ZeroRow>>)
             ELSE lib_ops_call(Machine(hw), fn, args, <<ZeroRow>>)} :
       /\ ~hw.fault
       /\ guards = 1
       /\ call.name = "rt_load"
       /\ hw' = m.h
       /\ trace' = m.trace
       /\ call' = [call EXCEPT !.name = "rt_store", !.fn = fn,
                               !.outcome = IF m.h.fault THEN "fault" ELSE "ok",
                               !.pre = hw.amx, !.out = m.out,
                               !.c = IF m.out # <<>>
                                        /\ Field(RtOperand(call.layer, args), 0, 56) = OutputAddr
                                     THEN m.out[1] ELSE call.c0]
       /\ UNCHANGED <<brand, build, cell, guards, lifecycle, enc, threads>>

NextRoundTrip ==
    \/ GuardTryNew
    \/ \E layer \in {"raw", "lib"} : \E file \in {"x", "y"} : \E slot \in 0..7 :
          \E pat \in RtPatterns : RtLoad(layer, file, slot, pat)
    \/ RtStore
    \/ GuardDrop

SpecRoundTrip == InitRoundTrip /\ [][NextRoundTrip]_vars

-----------------------------------------------------------------------------
(* Properties *)

EnableWord == 2101792     \* 0x00201220
DisableWord == 2101793    \* 0x00201221

\* the enable/disable words of the most recent call
CallLifecycle == SelectSeq(trace, IsLifecycleWord)

\* the history so far consists of guard construct/release only, never overlapping
OnlyGuardCycles == \A k \in 1..Len(lifecycle) : lifecycle[k].by = "guard" /\ lifecycle[k].live <= 1

\* guards never overlapped
NoOverlap == \A k \in 1..Len(lifecycle) : lifecycle[k].live <= 1

\* every matmul that reached the coprocessor ran while no guard was held
MatmulOutsideGuards == \A k \in 1..Len(lifecycle) : lifecycle[k].by = "matmul" => lifecycle[k].live = 0

DataWordsEnabled == \A k \in 1..Len(trace) : IsDataWord(trace[k]) => trace[k].at = "Enabled"

\* C1 as stated: with guards never overlapping, ops calls made under a guard
\* and matmul called at any point (also under a guard), every load, store and
\* compute instruction is issued while the coprocessor is Enabled.
C1_AsStated == NoOverlap => DataWordsEnabled

\* C1 amended: the same, provided matmul is called only while no guard is held.
C1_EnabledAtIssue == (NoOverlap /\ MatmulOutsideGuards) => DataWordsEnabled

\* an ops call under a guard, after an earlier matmul ran outside any guard
C1_Witness ==
    /\ call.name = "ops" /\ guards = 1 /\ NoOverlap /\ MatmulOutsideGuards
    /\ Len(trace) = 1 /\ trace[1].at = "Enabled"
    /\ \E k \in 1..Len(lifecycle) : lifecycle[k].by = "matmul"

\* C2: a matmul entered with the coprocessor Disabled leaves it Disabled on
\* every exit path.
C2_DisabledOnExit == (call.name = "matmul" /\ call.pre = "Disabled") => hw.amx = "Disabled"

\* C3: over any number of sequential guard cycles the enable and disable words
\* alternate starting with enable, construction issues exactly one enable, drop
\* exactly one disable, and with no guard left the coprocessor is Disabled.
C3_GuardCycles ==
    OnlyGuardCycles =>
        /\ \A k \in 1..Len(lifecycle) :
              lifecycle[k].word = IF k % 2 = 1 THEN EnableWord ELSE DisableWord
        /\ (call.name \in {"new", "default", "try_new"} /\ call.avail)
              => (Len(CallLifecycle) = 1 /\ CallLifecycle[1].word = EnableWord)
        /\ call.name = "drop"
              => (Len(CallLifecycle) = 1 /\ CallLifecycle[1].word = DisableWord)
        /\ guards = 0 => hw.amx = "Disabled"
        /\ guards = 1 => hw.amx = "Enabled"

\* two complete guard cycles
C3_Witness ==
    /\ OnlyGuardCycles /\ Len(lifecycle) = 4 /\ guards = 0 /\ call.name = "drop"

RECURSIVE Dot(_, _, _, _, _, _)
\* sum over k of a[r*n + k] * b[k*n + q]
Dot(a, b, n, r, q, k) ==
    IF k = n THEN 0 ELSE a[r * n + k + 1] * b[k * n + q + 1] + Dot(a, b, n, r, q, k + 1)

Naive(a, b, n) == [p \in 1..(n * n) |-> Dot(a, b, n, (p - 1) \div n, (p - 1) % n, 0)]

\* C4: on the boundary sizes matmul returns with c of length n*n equal to the
\* naive product, whatever c and the registers held before; with a the
\* identity, c equals b.
C4_MatchesNaive ==
    (call.name = "matmul" /\ call.n \in BoundarySizes) =>
        /\ call.outcome = IF call.n = 0 THEN "return_n0" ELSE "ok"
        /\ Len(call.c) = call.n * call.n
        /\ call.c = Naive(call.a, call.b, call.n)
        /\ call.a = GemmA("identity", call.n) => call.c = call.b

\* the largest boundary size, from stale registers and a non-identity a
C4_Witness ==
    /\ call.name = "matmul" /\ call.n = 33 /\ call.outcome = "ok"
    /\ call.a # GemmA("identity", 33)
    /\ call.c # [p \in 1..(33 * 33) |-> 0]
    /\ call.c0 # call.c
    /\ hw.y[1] = HwDirty.y[1]

\* C5: with n = 0 matmul and sgemm_raw issue no instruction and leave the
\* coprocessor and c as they were.
C5_ZeroSizeNoOp ==
    [][(call'.name \in {"matmul", "sgemm_raw"} /\ call'.n = 0) =>
          (trace' = <<>> /\ hw' = hw /\ lifecycle' = lifecycle /\ call'.c = call'.c0)]_vars

\* matmul with n = 0 returning while a guard keeps the coprocessor Enabled
C5_Witness ==
    /\ call.name = "matmul" /\ call.n = 0 /\ call.outcome = "return_n0"
    /\ hw.amx = "Enabled" /\ trace = <<>>

\* the product n * n as the build computes it differs from a length
LenMismatch(cl) ==
    LET nn == Usize(cl.n * cl.n)
    IN OverflowPanics(build, nn) \/ Len(cl.a) # nn.v \/ Len(cl.b) # nn.v \/ Len(cl.c0) # nn.v

\* the effects C6 rules out: an instruction issued, c or the coprocessor changed
AbortsUntouched ==
    /\ call'.outcome \in {"panic_unavailable", "panic_overflow",
                           "panic_len_a", "panic_len_b", "panic_len_c"}
    /\ trace' = <<>> /\ hw' = hw /\ lifecycle' = lifecycle
    /\ call'.c = call'.c0

\* C6: when a.len(), b.len() or c.len() differs from n*n, matmul aborts before
\* any instruction is issued and before c is touched; the coprocessor is unchanged.
C6_AsStated ==
    [][(/\ call'.name = "matmul"
        /\ \/ Len(call'.a) # call'.n * call'.n
           \/ Len(call'.b) # call'.n * call'.n
           \/ Len(call'.c0) # call'.n * call'.n) => AbortsUntouched]_vars

\* C6 with n*n taken as the product the build computes (wrapped in a release
\* build): a length that differs from it makes matmul abort with nothing
\* issued and c and the coprocessor untouched.
C6_LengthAbort ==
    [][(call'.name = "matmul" /\ LenMismatch(call')) =>
          AbortsUntouched]_vars

\* only c has the wrong length, on available hardware, with a guard held
C6_Witness ==
    /\ call.name = "matmul" /\ call.outcome = "panic_len_c" /\ call.n = 1
    /\ Len(call.c0) = 2 /\ hw.amx = "Enabled"

\* C7: when the probe reports Unavailable nothing is issued and the
\* coprocessor stays Disabled: try_new returns None (Some exactly when
\* available), new and matmul abort, sgemm_raw returns with c unchanged.
C7_UnavailableIssuesNothing ==
    /\ (call.name = "try_new") => (call.outcome = "Some" <=> detect(cell, brand) # "None")
    /\ detect(cell, brand) = "None" =>
        /\ hw = HwInit /\ trace = <<>> /\ lifecycle = <<>> /\ guards = 0
        /\ call.name = "try_new" => call.outcome = "None"
        /\ call.name \in {"new", "default", "matmul"} => call.outcome = "panic_unavailable"
        /\ call.name = "sgemm_raw" => (call.outcome = "return_early" /\ call.c = call.c0)

\* sgemm_raw with size 1 on a machine where the probe found no AMX
C7_Witness ==
    /\ cell = <<"None">> /\ call.name = "sgemm_raw" /\ call.n = 1
    /\ call.outcome = "return_early"

\* x mod 2^w
ModPow2(x, w) == {i \in x : i < w}

\* C8: every encoder puts each field, reduced modulo 2^width, in its own bit
\* range and sets no other bit; so encode(f) = encode(f mod 2^width), and
\* in-range fields are read back unchanged.
C8_FieldsDisjoint ==
    /\ enc.fn \in {"encode_xy", "encode_xy_ldst"} =>
        /\ Field(enc.out, 62, 1) = BoolU64(enc.pair)
        /\ Field(enc.out, 56, 3) = ModPow2(enc.reg, 3)
        /\ Field(enc.out, 0, 56) = ModPow2(enc.addr, 56)
        /\ enc.out \subseteq ({62} \cup 56..58 \cup 0..55)
        /\ enc.out = encode_xy(ModPow2(enc.addr, 56), ModPow2(enc.reg, 3), enc.pair)
        /\ enc.out = encode_xy_ldst(ModPow2(enc.addr, 56), ModPow2(enc.reg, 3), enc.pair)
    /\ enc.fn \in {"encode_z", "encode_z_ldst"} =>
        /\ Field(enc.out, 62, 1) = BoolU64(enc.pair)
        /\ Field(enc.out, 56, 6) = ModPow2(enc.reg, 6)
        /\ Field(enc.out, 0, 56) = ModPow2(enc.addr, 56)
        /\ enc.out \subseteq ({62} \cup 56..61 \cup 0..55)
        /\ enc.out = encode_z(ModPow2(enc.addr, 56), ModPow2(enc.reg, 6), enc.pair)
        /\ enc.out = encode_z_ldst(ModPow2(enc.addr, 56), ModPow2(enc.reg, 6), enc.pair)
    /\ enc.fn \in {"encode_fma", "lib_encode_fma"} =>
        /\ Field(enc.out, 63, 1) = BoolU64(enc.vector_mode)
        /\ Field(enc.out, 20, 6) = ModPow2(enc.z_row, 6)
        /\ Field(enc.out, 10, 9) = ModPow2(enc.x_off, 9)
        /\ Field(enc.out, 0, 9) = ModPow2(enc.y_off, 9)
        /\ enc.out \subseteq ({63} \cup 20..25 \cup 10..18 \cup 0..8)
        /\ enc.out = encode_fma(ModPow2(enc.x_off, 9), ModPow2(enc.y_off, 9),
                                ModPow2(enc.z_row, 6), enc.vector_mode)
        /\ enc.out = lib_encode_fma(ModPow2(enc.x_off, 9), ModPow2(enc.y_off, 9),
                                    ModPow2(enc.z_row, 6), enc.vector_mode)

\* encode_xy on a register index and an address that are both out of range
C8_Witness ==
    /\ enc.fn = "encode_xy" /\ enc.reg = {1, 3} /\ enc.addr = {3, 56, 62, 63}
    /\ ~enc.pair /\ enc.out = {3, 57}

\* C9: every operand-taking wrapper emits 0x00201000 + (opcode << 5) with an
\* opcode in 0..22 other than 17: bits [9:5] are the opcode, bits [4:0] are 0,
\* distinct operations have distinct opcodes, and raw.rs and lib.rs agree.
C9_WrapperWords ==
    call.name = "raw_op" =>
        /\ Len(trace) = 1
        /\ trace[1].word = 2101248 + WordOpcode(trace[1].word) * 32
        /\ trace[1].word % 32 = 0
        /\ WordOpcode(trace[1].word) \in (0..22) \ {17}
        /\ \A other \in (RawNames \cup LibNames) \ {call.fn} :
              /\ WrapperWord("raw", other) # trace[1].word
              /\ WrapperWord("lib", other) # trace[1].word
        /\ WrapperWord("raw", call.fn) = WrapperWord("lib", call.fn)

\* the last entry of the table, issued through lib.rs with the coprocessor enabled
C9_Witness ==
    /\ call.name = "raw_op" /\ call.fn = "amx_genlut" /\ call.layer = "lib"
    /\ call.outcome = "ok" /\ trace[1].word = 2101952

\* C10: amx_set and amx_clr emit opcode 17 and differ only in bit 0 (0 enables,
\* 1 disables); each such word is immediately preceded by exactly three nops,
\* and no call ends in a nop, so a fourth never joins them from an earlier call.
C10_ThreeNops ==
    /\ \A k \in 1..Len(trace) :
          IsLifecycleWord(trace[k]) =>
              /\ trace[k].ins \in {"amx_set", "amx_clr"}
              /\ trace[k].word = IF trace[k].ins = "amx_set" THEN EnableWord ELSE DisableWord
              /\ k >= 4
              /\ \A j \in (k - 3)..(k - 1) : trace[j].ins = "nop"
              /\ k >= 5 => trace[k - 4].ins # "nop"
    /\ \A k \in 1..Len(trace) : trace[k].ins \in {"amx_set", "amx_clr"} => IsLifecycleWord(trace[k])
    /\ trace # <<>> => trace[Len(trace)].ins # "nop"
    /\ call.name \in {"amx_set", "amx_clr"} => (Len(trace) = 4 /\ trace[4].ins = call.name)
    /\ DisableWord = EnableWord + 1 /\ EnableWord % 2 = 0 /\ WordOpcode(EnableWord) = 17

\* raw.rs's amx_clr right after an amx_set
C10_Witness ==
    /\ call.name = "amx_clr" /\ call.layer = "raw" /\ Len(lifecycle) = 2
    /\ lifecycle[1].word = EnableWord /\ trace[4].word = DisableWord
    /\ call.pre = "Enabled" /\ hw.amx = "Disabled"

\* C12: with two guards overlapping, a second guard is constructed without
\* complaint while the first is live, and dropping one of them issues the
\* disable word and leaves the coprocessor Disabled although a guard is still
\* held: no reference count keeps it Enabled.
C12_OverlapDisables ==
    /\ (call.name = "drop" /\ guards >= 1) =>
          /\ hw.amx = "Disabled"
          /\ Len(CallLifecycle) = 1 /\ CallLifecycle[1].word = DisableWord
          /\ lifecycle[Len(lifecycle)] = [word |-> DisableWord, by |-> "guard", live |-> guards]
    /\ (call.name \in {"new", "default", "try_new"} /\ call.avail) =>
          /\ call.outcome = IF call.name = "try_new" THEN "Some" ELSE "guard"
          /\ hw.amx = "Enabled"
          /\ Len(CallLifecycle) = 1 /\ CallLifecycle[1].word = EnableWord

\* new, new, drop: the coprocessor was Enabled, is Disabled, one guard is live
C12_Witness ==
    /\ call.name = "drop" /\ call.pre = "Enabled" /\ guards = 1 /\ hw.amx = "Disabled"
    /\ Len(lifecycle) = 3 /\ lifecycle[2].live = 2 /\ lifecycle[2].word = EnableWord

\* C15: in a release build, once the three length assertions have passed no
\* index or slice range inside the tile loops is out of bounds, so neither
\* matmul nor sgemm_raw aborts between the enable and the disable word.
C15_NoAbortInLoops ==
    (call.name \in {"matmul", "sgemm_raw"} /\ build = "release") =>
        /\ call.outcome # "panic_index"
        /\ CallLifecycle # <<>> => CallLifecycle[Len(CallLifecycle)].word = DisableWord

\* C11: under every interleaving of threads calling detect()/is_available(),
\* the cell is written at most once (and detect_internal run at most once),
\* it holds what was first stored, and every call on every thread returns
\* that same value.
C11_WriteOnce ==
    /\ SumOver(threads, "writes", NThreads) <= 1
    /\ SumOver(threads, "evals", NThreads) <= 1
    /\ cell # <<>> => (cell = <<detect_internal(brand)>> /\ SumOver(threads, "writes", NThreads) = 1)
    /\ \A t \in Threads : \A k \in 1..Len(threads[t].rets) :
          /\ cell # <<>>
          /\ threads[t].rets[k].val =
                IF threads[t].rets[k].fn = "detect" THEN cell[1]
                ELSE IF cell[1] # "None" THEN "true" ELSE "false"
    /\ \A t, u \in Threads : \A k \in 1..Len(threads[t].rets) : \A j \in 1..Len(threads[u].rets) :
          threads[t].rets[k].fn = threads[u].rets[j].fn
              => threads[t].rets[k].val = threads[u].rets[j].val

\* two first calls raced: both threads found the cell unset, one of them wrote
\* it, and both calls have returned
C11_Witness ==
    \E t, u \in Threads :
        /\ threads[t].writes = 1 /\ threads[t].rets # <<>>
        /\ threads[u].writes = 0 /\ threads[u].slow = 1 /\ threads[u].rets # <<>>

\* the register file an ops load/store of that name works on
FileOf(h, fn) == IF fn \in {"ldx", "stx"} THEN h.x ELSE h.y

\* C13: with a guard held, ldx(src, s, false) then stx(dst, s, false) (likewise
\* ldy/sty) for any slot s in 0..7 and any pattern leaves at dst exactly the
\* pattern of src; the load changes slot s only, the store changes no
\* register, and both operands carry the same slot s.
C13_RoundTrip ==
    [][/\ (call'.name = "rt_load" /\ call.name # "rt_load") =>
            /\ call'.outcome = "ok"
            /\ FileOf(hw', call'.fn)[call'.n] = call'.a
            /\ \A r \in 0..7 : r # call'.n => FileOf(hw', call'.fn)[r] = FileOf(hw, call'.fn)[r]
            /\ hw'.z = hw.z /\ hw'.amx = hw.amx
            /\ call'.fn = "ldx" => hw'.y = hw.y
            /\ call'.fn = "ldy" => hw'.x = hw.x
       /\ (call'.name = "rt_store" /\ call.name = "rt_load") =>
            /\ call'.outcome = "ok"
            /\ call'.c = call'.a
            /\ hw' = hw
            /\ Field(trace[1].operand, 56, 3) = U64(call'.n)
            /\ Field(trace'[1].operand, 56, 3) = U64(call'.n)]_vars

\* the last Y slot, through ops.rs, on registers that held other values
C13_Witness ==
    /\ call.name = "rt_store" /\ call.fn = "sty" /\ call.layer = "raw" /\ call.n = 7
    /\ call.a = [q \in Lanes |-> 100 - 7 * q] /\ call.c = call.a
    /\ hw.y[6] = HwStale.y[6]

\* what an issued instruction says: its name, the register slot or Z row in
\* its operand, and every operand bit that is neither that nor the address
View(e) ==
    LET width == IF e.ins \in {"amx_ldz", "amx_stz"} THEN 6 ELSE 3
    IN IF e.ins \in {"amx_ldx", "amx_ldy", "amx_ldz", "amx_stz"}
       THEN [ins |-> e.ins, sel |-> NatOf(Field(e.operand, 56, width)),
             other |-> e.operand \ (0..55 \cup 56..(56 + width - 1))]
       ELSE [ins |-> e.ins, sel |-> 0, other |-> e.operand]

Ins(name, sel) == [ins |-> name, sel |-> sel, other |-> {}]

\* tiles per dimension, and the tile with row-major number t
NTiles(n) == (n + 15) \div 16
TileI(n, t) == 16 * (t \div NTiles(n))
TileJ(n, t) == 16 * (t % NTiles(n))

\* the instructions of one output tile with `rows` logical rows
TileTrace(rows, n) ==
    [p \in 1..(2 * rows + 3 * n) |->
        IF p <= rows THEN Ins("amx_ldz", (p - 1) * 4)
        ELSE IF p <= rows + 3 * n
             THEN CASE (p - rows - 1) % 3 = 0 -> Ins("amx_ldy", 0)
                    [] (p - rows - 1) % 3 = 1 -> Ins("amx_ldx", 0)
                    [] OTHER -> Ins("amx_fma32", 0)
        ELSE Ins("amx_stz", (p - rows - 3 * n - 1) * 4)]

RECURSIVE TilesTrace(_, _)
TilesTrace(n, t) ==
    IF t = NTiles(n) * NTiles(n) THEN <<>>
    ELSE TileTrace(Min(16, n - TileI(n, t)), n) \o TilesTrace(n, t + 1)

ExpectedTrace(n) == <<Ins("amx_set", 0)>> \o TilesTrace(n, 0) \o <<Ins("amx_clr", 0)>>

\* the reduction indices in order: 0..n-1 for each tile, tiles in row-major order
ExpectedAccs(n) ==
    [p \in 1..(NTiles(n) * NTiles(n) * n) |->
        [i |-> TileI(n, (p - 1) \div n), j |-> TileJ(n, (p - 1) \div n), idx |-> (p - 1) % n]]

NotNop(e) == e.ins # "nop"

\* C14: for n > 0 and a, b, c of n*n elements matmul returns having issued
\* one enable first and one disable last; between them, tile by tile in row-major order: one ldz per
\* logical row r at Z row 4r (at most 60), then for each reduction index
\* 0..n-1 in increasing order ldy slot 0, ldx slot 0, fma32(0,0,0,false),
\* then one stz per logical row at Z row 4r; every element of c is written
\* by the drain of exactly one tile.
C14_TraceShape ==
    (/\ call.name = "matmul" /\ call.n > 0 /\ call.avail
     /\ Len(call.a) = call.n * call.n /\ Len(call.b) = call.n * call.n
     /\ Len(call.c0) = call.n * call.n) =>
        LET issued == SelectSeq(trace, NotNop)
        IN /\ call.outcome = "ok"
           /\ [k \in 1..Len(issued) |-> View(issued[k])] = ExpectedTrace(call.n)
           /\ \A k \in 2..Len(issued) : issued[k].at = "Enabled"
           /\ call.accs = ExpectedAccs(call.n)
           /\ \A p \in 1..(call.n * call.n) :
                 \E k \in 1..Len(call.stores) :
                    /\ p > call.stores[k].start /\ p <= call.stores[k].start + call.stores[k].len
                    /\ \A o \in 1..Len(call.stores) :
                          (p > call.stores[o].start /\ p <= call.stores[o].start + call.stores[o].len)
                              => o = k

\* n = 33: nine tiles, the last row and column of tiles one element wide
C14_Witness ==
    /\ call.name = "matmul" /\ call.n = 33 /\ call.outcome = "ok"
    /\ Len(SelectSeq(trace, NotNop)) = 2 + 3 * (2 * (16 + 16 + 1) + 3 * 3 * 33)
    /\ Len(call.stores) = 3 * 33
    /\ call.stores[99] = [i |-> 32, j |-> 32, start |-> 32 * 33 + 32, len |-> 1]

=============================================================================
